---- MODULE Spec2Model ----
(***************************************************************************)
(* Model of sqlite_basic_orm.py (SQLiteDB / SQLiteContextDB): a thin layer *)
(* that builds SQL statements from structured arguments, hands them to the *)
(* sqlite3 cursor and normalises the rows that come back.                  *)
(*                                                                         *)
(* Python values are modelled with their run-time type, because the code   *)
(* decides everything with isinstance(): a value is a record [t, v] with   *)
(* t in {"none", "int", "str", "list", "tuple"}.                           *)
(***************************************************************************)
EXTENDS Integers, Sequences, FiniteSets, TLC

VARIABLES db, committed, inTxn, fk, pending, call, sent, ret, raised, pre

vars == <<db, committed, inTxn, fk, pending, call, sent, ret, raised, pre>>

(***************************************************************************)
(* Bounds of the model.                                                    *)
(***************************************************************************)
MaxVal == 2
MaxRows == 2
MaxLen == 2
MaxBatch == 2
MaxPending == 1
MaxRaw == 3

(***************************************************************************)
(* Python values.                                                          *)
(***************************************************************************)
PyNone == [t |-> "none", v |-> <<>>]

PyInt(n) == [t |-> "int", v |-> n]

PyList(s) == [t |-> "list", v |-> s]

PyTuple(s) == [t |-> "tuple", v |-> s]

\* isinstance(x, list) or isinstance(x, tuple)
IsSeq(x) == x.t \in {"list", "tuple"}

\* list(x) for a list or a tuple x
ToList(x) == PyList(x.v)

\* SQL NULL as it is stored in a row of the engine
Null == 0

\* a stored scalar as the Python value sqlite3 hands back
PyScalar(n) == IF n = Null THEN PyNone ELSE PyInt(n)

\* cursor.fetchall(): a list with one tuple per row
FetchAll(rows) ==
  PyList([i \in 1..Len(rows) |->
            PyTuple([j \in 1..Len(rows[i]) |-> PyScalar(rows[i][j])])])

(***************************************************************************)
(* Result normaliser.                                                      *)
(***************************************************************************)
TupleToList(input_tuple) ==
  IF input_tuple = PyNone
  THEN PyNone
  ELSE PyList([i \in 1..Len(input_tuple.v) |-> ToList(input_tuple.v[i])])

PrettifyNoSingle(input_list) ==
  IF input_list = PyNone
  THEN PyNone
  ELSE IF Len(input_list.v) > 1 /\ Len(input_list.v[1].v) = 1
       THEN PyList([i \in 1..Len(input_list.v) |-> input_list.v[i].v[1]])
       ELSE input_list

PrettifyFirstOnly(input_list) ==
  IF input_list = PyNone
  THEN PyNone
  ELSE IF Len(input_list.v) = 1
       THEN input_list.v[1]
       ELSE IF Len(input_list.v) > 1
            THEN PyList([i \in 1..Len(input_list.v) |-> input_list.v[i].v[1]])
            ELSE input_list

PrettifyOutput(input_list) ==
  IF input_list = PyNone
  THEN PyNone
  ELSE IF Len(input_list.v) = 1
       THEN input_list.v[1]
       ELSE IF Len(input_list.v) > 1 /\ Len(input_list.v[1].v) = 1
            THEN PyList([i \in 1..Len(input_list.v) |-> input_list.v[i].v[1]])
            ELSE input_list

\* the success branch of sqlite_select / sqlite_execute: reshape the rows
ShapeResult(result, return_list, prettify_output) ==
  LET r1 == IF return_list THEN TupleToList(result) ELSE result
  IN  IF prettify_output THEN PrettifyOutput(r1) ELSE r1

(***************************************************************************)
(* Raw results of the engine: N rows of one width W.                       *)
(***************************************************************************)
Vals == 1..MaxVal

\* what a stored cell can hold
Cells == Vals \cup {Null}

RECURSIVE SeqsOfLen(_, _)
SeqsOfLen(S, n) ==
  IF n = 0 THEN {<<>>}
  ELSE {Append(s, x) : s \in SeqsOfLen(S, n - 1), x \in S}

SeqsUpTo(S, n) == UNION {SeqsOfLen(S, k) : k \in 0..n}

RawResults(W) == SeqsUpTo(SeqsOfLen(Cells, W), MaxRaw)

NoCall == [op |-> "none"]

InitNorm ==
  /\ db = <<>> /\ committed = <<>> /\ inTxn = FALSE /\ fk = FALSE /\ pending = 0
  /\ sent = <<>> /\ ret = PyNone /\ raised = "" /\ pre = <<>>
  /\ \E W \in 1..2 : \E raw \in RawResults(W) :
       call = [op |-> "raw", W |-> W, raw |-> raw]

\* the engine returned call.raw to a select; the select reshapes it
Normalize ==
  /\ call.op = "raw"
  /\ \E return_list \in BOOLEAN, prettify_output \in BOOLEAN :
       /\ call' = [op |-> "shaped", W |-> call.W, raw |-> call.raw,
                   return_list |-> return_list,
                   prettify_output |-> prettify_output]
       /\ ret' = ShapeResult(FetchAll(call.raw), return_list, prettify_output)
  /\ UNCHANGED <<db, committed, inTxn, fk, pending, sent, raised, pre>>

NextNorm == Normalize

SpecNorm == InitNorm /\ [][NextNorm]_vars

(***************************************************************************)
(* The sqlite3 engine behind the cursor.  A database maps a table name to  *)
(* its columns, whether the first column is an INTEGER PRIMARY KEY, and    *)
(* its rows in scan (rowid) order; a name with no columns is no table.     *)
(***************************************************************************)
Names == {"t", "u", "v"}

Absent == [cols |-> <<>>, pk |-> FALSE, rows |-> <<>>]

Exists(d, n) == n \in DOMAIN d /\ d[n].cols # <<>>

HasCol(tbl, c) == \E j \in 1..Len(tbl.cols) : tbl.cols[j] = c

ColIndex(cols, c) == CHOOSE j \in 1..Len(cols) : cols[j] = c

PyStr(s) == [t |-> "str", v |-> s]

\* a search condition: "1 = 1" (col = "") or "<col> = <val>"
CondAll == [col |-> "", val |-> 0]

CondEq(c, x) == [col |-> c, val |-> x]

NoCond == [col |-> "-", val |-> 0]

CondOk(tbl, cond) == cond.col \in {"", "-"} \/ HasCol(tbl, cond.col)

Matches(tbl, row, cond) ==
  cond.col \in {"", "-"} \/ row[ColIndex(tbl.cols, cond.col)] = cond.val

\* one statement as it is handed to the cursor
Stmt(kind, table, cols, nq, cond, flag, arg) ==
  [kind |-> kind, table |-> table, cols |-> cols, nq |-> nq,
   cond |-> cond, flag |-> flag, arg |-> arg]

NoParams == PyTuple(<<>>)

\* sqlite3 binds one scalar per placeholder
BindOk(st, params) ==
  /\ IsSeq(params)
  /\ Len(params.v) = st.nq
  /\ \A k \in 1..Len(params.v) : params.v[k].t \in {"int", "none"}

CellOf(p) == IF p.t = "int" THEN p.v ELSE Null

RECURSIVE SortedInsert(_, _)
SortedInsert(rows, row) ==
  IF rows = <<>> THEN <<row>>
  ELSE IF row[1] < Head(rows)[1] THEN <<row>> \o rows
       ELSE <<Head(rows)>> \o SortedInsert(Tail(rows), row)

RECURSIVE SortByKey(_)
SortByKey(rows) ==
  IF rows = <<>> THEN <<>>
  ELSE SortedInsert(SortByKey(Tail(rows)), Head(rows))

RECURSIVE FilterRows(_, _, _, _)
FilterRows(rows, tbl, cond, want) ==
  IF rows = <<>> THEN <<>>
  ELSE IF Matches(tbl, Head(rows), cond) = want
       THEN <<Head(rows)>> \o FilterRows(Tail(rows), tbl, cond, want)
       ELSE FilterRows(Tail(rows), tbl, cond, want)

\* the rows of tbl that satisfy cond, in scan order
Matching(tbl, cond) == FilterRows(tbl.rows, tbl, cond, TRUE)

NotMatching(tbl, cond) == FilterRows(tbl.rows, tbl, cond, FALSE)

RECURSIVE WithoutKey(_, _)
WithoutKey(rows, key) ==
  IF rows = <<>> THEN <<>>
  ELSE IF Head(rows)[1] = key
       THEN WithoutKey(Tail(rows), key)
       ELSE <<Head(rows)>> \o WithoutKey(Tail(rows), key)

KeysUnique(rows) ==
  \A i, j \in 1..Len(rows) : rows[i][1] = rows[j][1] => i = j

Rejected(d) == [ok |-> FALSE, db |-> d, rows |-> <<>>]

Accepted(d, rows) == [ok |-> TRUE, db |-> d, rows |-> rows]

\* INSERT [OR REPLACE] INTO table (cols) VALUES (?, ...)
EngineInsert(d, st, params) ==
  IF ~Exists(d, st.table) THEN Rejected(d)
  ELSE
    LET tbl == d[st.table]
    IN  IF \/ \E k \in 1..Len(st.cols) : ~HasCol(tbl, st.cols[k])
           \/ ~BindOk(st, params)
        THEN Rejected(d)
        ELSE
          LET row == [j \in 1..Len(tbl.cols) |->
                        IF \E k \in 1..Len(st.cols) : st.cols[k] = tbl.cols[j]
                        THEN CellOf(params.v[ColIndex(st.cols, tbl.cols[j])])
                        ELSE Null]
              clash == tbl.pk /\ \E i \in 1..Len(tbl.rows) : tbl.rows[i][1] = row[1]
              others == WithoutKey(tbl.rows, row[1])
          IN  IF clash /\ ~st.flag THEN Rejected(d)
              ELSE IF tbl.pk
                   THEN Accepted([d EXCEPT ![st.table].rows = SortedInsert(others, row)], <<>>)
                   ELSE Accepted([d EXCEPT ![st.table].rows = Append(tbl.rows, row)], <<>>)

\* UPDATE table SET col = ?, ... WHERE cond
EngineUpdate(d, st, params) ==
  IF ~Exists(d, st.table) THEN Rejected(d)
  ELSE
    LET tbl == d[st.table]
    IN  IF \/ \E k \in 1..Len(st.cols) : ~HasCol(tbl, st.cols[k])
           \/ ~CondOk(tbl, st.cond)
           \/ ~BindOk(st, params)
        THEN Rejected(d)
        ELSE
          LET upd(row) == [j \in 1..Len(tbl.cols) |->
                             IF \E k \in 1..Len(st.cols) : st.cols[k] = tbl.cols[j]
                             THEN CellOf(params.v[ColIndex(st.cols, tbl.cols[j])])
                             ELSE row[j]]
              rows2 == [i \in 1..Len(tbl.rows) |->
                          IF Matches(tbl, tbl.rows[i], st.cond)
                          THEN upd(tbl.rows[i]) ELSE tbl.rows[i]]
          IN  IF tbl.pk /\ ~KeysUnique(rows2) THEN Rejected(d)
              ELSE IF tbl.pk
                   THEN Accepted([d EXCEPT ![st.table].rows = SortByKey(rows2)], <<>>)
                   ELSE Accepted([d EXCEPT ![st.table].rows = rows2], <<>>)

\* DELETE FROM table WHERE cond
EngineDelete(d, st, params) ==
  IF ~Exists(d, st.table) THEN Rejected(d)
  ELSE
    LET tbl == d[st.table]
    IN  IF ~CondOk(tbl, st.cond) \/ ~BindOk(st, params) THEN Rejected(d)
        ELSE Accepted([d EXCEPT ![st.table].rows = NotMatching(tbl, st.cond)], <<>>)

\* SELECT cols FROM table [WHERE cond]; cols = <<"*">> selects every column
EngineSelect(d, st, params) ==
  IF ~Exists(d, st.table) THEN Rejected(d)
  ELSE
    LET tbl == d[st.table]
        star == st.cols = <<"*">>
    IN  IF \/ ~star /\ \E k \in 1..Len(st.cols) : ~HasCol(tbl, st.cols[k])
           \/ ~CondOk(tbl, st.cond)
           \/ ~BindOk(st, params)
        THEN Rejected(d)
        ELSE
          LET found == Matching(tbl, st.cond)
              proj(row) == IF star THEN row
                           ELSE [k \in 1..Len(st.cols) |->
                                   row[ColIndex(tbl.cols, st.cols[k])]]
          IN  Accepted(d, FetchAll([i \in 1..Len(found) |-> proj(found[i])]).v)

\* SELECT COUNT FROM table [WHERE cond]
EngineCount(d, st, params) ==
  IF ~Exists(d, st.table) THEN Rejected(d)
  ELSE
    LET tbl == d[st.table]
    IN  IF ~CondOk(tbl, st.cond) \/ ~BindOk(st, params) THEN Rejected(d)
        ELSE Accepted(d, <<PyTuple(<<PyInt(Len(Matching(tbl, st.cond)))>>)>>)

\* CREATE TABLE table (cols ..., [PRIMARY KEY]); flag: first column is the key
EngineCreate(d, st, params) ==
  IF Exists(d, st.table) \/ st.cols = <<>> \/ ~BindOk(st, params) THEN Rejected(d)
  ELSE Accepted([d EXCEPT ![st.table] =
                   [cols |-> st.cols, pk |-> st.flag, rows |-> <<>>]], <<>>)

\* DROP TABLE table
EngineDrop(d, st, params) ==
  IF ~Exists(d, st.table) \/ ~BindOk(st, params) THEN Rejected(d)
  ELSE Accepted([d EXCEPT ![st.table] = Absent], <<>>)

\* ALTER TABLE table RENAME TO arg
EngineRenameTable(d, st, params) ==
  IF ~Exists(d, st.table) \/ Exists(d, st.arg) \/ ~BindOk(st, params)
  THEN Rejected(d)
  ELSE Accepted([d EXCEPT ![st.arg] = d[st.table], ![st.table] = Absent], <<>>)

\* ALTER TABLE table ADD COLUMN arg
EngineAddColumn(d, st, params) ==
  IF ~Exists(d, st.table) \/ ~BindOk(st, params) THEN Rejected(d)
  ELSE
    LET tbl == d[st.table]
    IN  IF HasCol(tbl, st.arg) THEN Rejected(d)
        ELSE Accepted([d EXCEPT ![st.table] =
               [cols |-> Append(tbl.cols, st.arg), pk |-> tbl.pk,
                rows |-> [i \in 1..Len(tbl.rows) |-> Append(tbl.rows[i], Null)]]],
               <<>>)

\* ALTER TABLE table RENAME COLUMN cols[1] TO arg
EngineRenameColumn(d, st, params) ==
  IF ~Exists(d, st.table) \/ ~BindOk(st, params) THEN Rejected(d)
  ELSE
    LET tbl == d[st.table]
    IN  IF ~HasCol(tbl, st.cols[1]) \/ HasCol(tbl, st.arg) THEN Rejected(d)
        ELSE Accepted([d EXCEPT ![st.table].cols =
               [j \in 1..Len(tbl.cols) |->
                  IF tbl.cols[j] = st.cols[1] THEN st.arg ELSE tbl.cols[j]]],
               <<>>)

NameOrder == <<"t", "u", "v">>

RECURSIVE ExistingFrom(_, _)
ExistingFrom(d, i) ==
  IF i > Len(NameOrder) THEN <<>>
  ELSE IF Exists(d, NameOrder[i])
       THEN <<PyTuple(<<PyStr(NameOrder[i])>>)>> \o ExistingFrom(d, i + 1)
       ELSE ExistingFrom(d, i + 1)

\* SELECT name FROM SQLITE_MASTER WHERE type='table'
EngineTables(d, st, params) == Accepted(d, ExistingFrom(d, 1))

\* SELECT * FROM pragma_table_info('table'): no row for a missing table
EngineTableInfo(d, st, params) ==
  IF ~Exists(d, st.table) THEN Accepted(d, <<>>)
  ELSE
    LET tbl == d[st.table]
    IN  Accepted(d, [j \in 1..Len(tbl.cols) |->
          PyTuple(<<PyInt(j - 1), PyStr(tbl.cols[j]), PyStr("INTEGER"),
                    PyInt(0), PyNone,
                    PyInt(IF tbl.pk /\ j = 1 THEN 1 ELSE 0)>>)])

\* SELECT sql FROM SQLITE_MASTER WHERE type='table' and name = 'table'
EngineSchema(d, st, params) ==
  IF ~Exists(d, st.table) THEN Accepted(d, <<>>)
  ELSE Accepted(d, <<PyTuple(<<PyStr(st.table)>>)>>)

IsDML(st) == st.kind \in {"INSERT", "UPDATE", "DELETE"}

\* what the engine does with one statement and one row of parameters
Engine(d, st, params) ==
  CASE st.kind = "INSERT" -> EngineInsert(d, st, params)
    [] st.kind = "UPDATE" -> EngineUpdate(d, st, params)
    [] st.kind = "DELETE" -> EngineDelete(d, st, params)
    [] st.kind = "SELECT" -> EngineSelect(d, st, params)
    [] st.kind = "COUNT" -> EngineCount(d, st, params)
    [] st.kind = "CREATE" -> EngineCreate(d, st, params)
    [] st.kind = "DROP" -> EngineDrop(d, st, params)
    [] st.kind = "RENAME" -> EngineRenameTable(d, st, params)
    [] st.kind = "ADDCOL" -> EngineAddColumn(d, st, params)
    [] st.kind = "RENCOL" -> EngineRenameColumn(d, st, params)
    [] st.kind = "TABLES" -> EngineTables(d, st, params)
    [] st.kind = "TABLE_INFO" -> EngineTableInfo(d, st, params)
    [] st.kind = "SCHEMA" -> EngineSchema(d, st, params)
    [] OTHER -> Rejected(d)

(***************************************************************************)
(* The connection and its cursor (sqlite3 module, default isolation        *)
(* level): a data-changing statement opens a transaction, any other        *)
(* statement run outside a transaction takes effect at once, rollback      *)
(* returns to the last commit, PRAGMA foreign_keys does nothing inside a   *)
(* transaction.                                                            *)
(***************************************************************************)
Conn == [db |-> db, committed |-> committed, inTxn |-> inTxn, fk |-> fk]

SetConn(c) ==
  /\ db' = c.db
  /\ committed' = c.committed
  /\ inTxn' = c.inTxn
  /\ fk' = c.fk

ConnCommit(c) == [c EXCEPT !.committed = c.db, !.inTxn = FALSE]

ConnKeep(c) == [c EXCEPT !.inTxn = FALSE]

ConnRollback(c) == [c EXCEPT !.db = c.committed, !.inTxn = FALSE]

\* the connection after the engine has answered r to statement st
Executed(c, st, r) ==
  IF r.ok
  THEN [ok |-> TRUE,
        c |-> [c EXCEPT !.db = r.db, !.inTxn = c.inTxn \/ IsDML(st),
                        !.committed = IF c.inTxn \/ IsDML(st)
                                      THEN c.committed ELSE r.db],
        rows |-> r.rows]
  ELSE [ok |-> FALSE, c |-> [c EXCEPT !.inTxn = c.inTxn \/ IsDML(st)],
        rows |-> <<>>]

CursorExecute(c, st, params) ==
  IF st.kind = "PRAGMA_FK"
  THEN [ok |-> TRUE,
        c |-> IF c.inTxn THEN c ELSE [c EXCEPT !.fk = (st.arg = "ON")],
        rows |-> <<>>]
  ELSE Executed(c, st, Engine(c.db, st, params))

RECURSIVE ManyFrom(_, _, _, _)
ManyFrom(d, st, rows, i) ==
  LET after(r) == IF r.ok THEN ManyFrom(r.db, st, rows, i + 1) ELSE Rejected(d)
  IN  IF i > Len(rows) THEN Accepted(d, <<>>)
      ELSE after(IF IsSeq(rows[i]) THEN Engine(d, st, rows[i]) ELSE Rejected(d))

\* cursor.executemany: one execution per row, the rows before a rejected
\* row stay in the open transaction
CursorExecuteMany(c, st, seq_of_params) ==
  LET after(r) ==
        [ok |-> r.ok, c |-> [c EXCEPT !.db = r.db, !.inTxn = TRUE], rows |-> <<>>]
  IN  IF ~IsDML(st) \/ ~IsSeq(seq_of_params)
      THEN [ok |-> FALSE, c |-> c, rows |-> <<>>]
      ELSE after(ManyFrom(c.db, st, seq_of_params.v, 1))

\* what a handler leaves behind: the connection, the statements it handed
\* to the cursor, its return value and the exception that left it ("" none)
Out(c, s, r, e) == [c |-> c, sent |-> s, ret |-> r, raised |-> e]

\* one statement handed to the cursor, and whether the engine accepted it
Handed(st, params, many, ok) ==
  [st |-> st, params |-> params, many |-> many, ok |-> ok]

(***************************************************************************)
(* The handlers of SQLiteDB.  column_names is a PyStr or a PyList of       *)
(* names; values is any Python value; fault says that the engine fails on  *)
(* the metadata query of this call (locked or unreadable database).        *)
(* print_report only adds SELECT COUNT queries that change nothing, it  *)
(* is left at a value that keeps them out of the way.                      *)
(***************************************************************************)
SqliteCommitRun(c) == Out(ConnCommit(c), <<>>, PyNone, "")

\* sqlite_table_info: on an engine failure the handler rolls back and then
\* reads the local `result` that was never assigned
SqliteTableInfoRun(c, table_name, prettify_output, fault) ==
  LET st == Stmt("TABLE_INFO", table_name, <<>>, 0, NoCond, FALSE, "")
      after(x) ==
        IF fault \/ ~x.ok
        THEN Out(ConnRollback(c), <<Handed(st, NoParams, FALSE, FALSE)>>,
                 PyNone, "UnboundLocalError")
        ELSE Out(x.c, <<Handed(st, NoParams, FALSE, TRUE)>>,
                 IF prettify_output THEN PrettifyOutput(PyList(x.rows))
                 ELSE PyList(x.rows), "")
  IN  after(CursorExecute(c, st, NoParams))

\* column_names == '*': the names of the table's columns in schema order
StarColumns(table_info) ==
  PyList([j \in 1..Len(table_info.v) |-> table_info.v[j].v[2].v])

WrapScalars(values) ==
  PyList([i \in 1..Len(values.v) |->
            IF IsSeq(values.v[i]) THEN values.v[i] ELSE PyTuple(<<values.v[i]>>)])

Plan(st, many, values) ==
  [raise |-> "", statement |-> st, execute_many |-> many, values |-> values]

PlanRaise(e) ==
  [raise |-> e, statement |-> Stmt("", "", <<>>, 0, NoCond, FALSE, ""),
   execute_many |-> FALSE, values |-> PyNone]

\* sqlite_insert, one column: every sequence is a batch of one-value rows
InsertPlanSingle(table_name, name, values, replace) ==
  LET st == Stmt("INSERT", table_name, <<name>>, 1, NoCond, replace, "")
  IN  IF IsSeq(values)
      THEN Plan(st, TRUE, WrapScalars(values))
      ELSE Plan(st, FALSE, PyTuple(<<values>>))

InsertPlanNeverMany(table_name, column_names, values, replace) ==
  IF IsSeq(column_names) /\ Len(column_names.v) > 1
  THEN IF ~IsSeq(values) THEN PlanRaise("TypeError")
       ELSE Plan(Stmt("INSERT", table_name, column_names.v,
                      Len(column_names.v), NoCond, replace, ""), FALSE, values)
  ELSE IF IsSeq(column_names)
       THEN IF Len(column_names.v) = 0 THEN PlanRaise("IndexError")
            ELSE Plan(Stmt("INSERT", table_name, <<column_names.v[1]>>, 1,
                           NoCond, replace, ""), FALSE,
                      IF IsSeq(values) THEN values ELSE PyTuple(<<values>>))
       ELSE Plan(Stmt("INSERT", table_name, <<column_names.v>>, 1,
                      NoCond, replace, ""), FALSE,
                 IF IsSeq(values) THEN values ELSE PyTuple(<<values>>))

InsertPlanFirstRow(table_name, column_names, values, replace) ==
  IF IsSeq(column_names) /\ Len(column_names.v) > 1
  THEN IF ~IsSeq(values) THEN PlanRaise("TypeError")
       ELSE Plan(Stmt("INSERT", table_name, column_names.v,
                      Len(column_names.v), NoCond, replace, ""), FALSE,
                 IF IsSeq(values.v[1]) THEN values.v[1] ELSE values)
  ELSE IF IsSeq(column_names)
       THEN IF Len(column_names.v) = 0 THEN PlanRaise("IndexError")
            ELSE Plan(Stmt("INSERT", table_name, <<column_names.v[1]>>, 1,
                           NoCond, replace, ""), FALSE,
                      IF ~IsSeq(values) THEN PyTuple(<<values>>)
                      ELSE IF IsSeq(values.v[1]) THEN values.v[1] ELSE values)
       ELSE Plan(Stmt("INSERT", table_name, <<column_names.v>>, 1,
                      NoCond, replace, ""), FALSE,
                 IF ~IsSeq(values) THEN PyTuple(<<values>>)
                 ELSE IF IsSeq(values.v[1]) THEN values.v[1] ELSE values)

\* sqlite_insert: statement, primitive and parameters chosen from the
\* shapes of column_names and values
InsertPlan(table_name, column_names, values, replace) ==
  IF IsSeq(column_names)
  THEN IF Len(column_names.v) > 1
       THEN IF ~IsSeq(values) THEN PlanRaise("TypeError")
            ELSE Plan(Stmt("INSERT", table_name, column_names.v,
                           Len(column_names.v), NoCond, replace, ""),
                      IsSeq(values.v[1]), values)
       ELSE IF Len(column_names.v) = 0 THEN PlanRaise("IndexError")
            ELSE InsertPlanSingle(table_name, column_names.v[1], values, replace)
  ELSE InsertPlanSingle(table_name, column_names.v, values, replace)

\* run a planned statement: execute or executemany inside try, rollback on
\* any exception, commit when asked to
RunPlan(c, plan, force_commit) ==
  LET after(x) ==
        [ok |-> x.ok,
         c |-> IF ~x.ok THEN ConnRollback(x.c)
               ELSE IF force_commit THEN ConnCommit(x.c) ELSE x.c,
         sent |-> <<Handed(plan.statement, plan.values, plan.execute_many, x.ok)>>,
         rows |-> x.rows]
  IN  after(IF plan.execute_many
            THEN CursorExecuteMany(c, plan.statement, plan.values)
            ELSE CursorExecute(c, plan.statement, plan.values))

\* run the plan of an insert or an update on connection c, after the
\* statements s of the column lookup
RunPlanned(c, s, plan, force_commit) ==
  LET after(x) == Out(x.c, s \o x.sent, PyNone, "")
  IN  IF plan.raise # ""
      THEN Out(c, s, PyNone, plan.raise)
      ELSE after(RunPlan(c, plan, force_commit))

SqliteInsertRun(c, table_name, column_names, values, replace, force_commit, fault) ==
  LET listed(ti) ==
        IF ti.raised # "" THEN ti
        ELSE RunPlanned(ti.c, ti.sent,
                        InsertPlan(table_name, StarColumns(ti.ret), values, replace),
                        force_commit)
  IN  IF column_names = PyStr("*")
      THEN listed(SqliteTableInfoRun(c, table_name, FALSE, fault))
      ELSE RunPlanned(c, <<>>,
                      InsertPlan(table_name, column_names, values, replace),
                      force_commit)

\* sqlite_update: one execute, a scalar becomes a one-element tuple
UpdatePlan(table_name, column_names, values, search_condition) ==
  IF IsSeq(column_names) /\ Len(column_names.v) = 0
  THEN PlanRaise("IndexError")
  ELSE
    LET cols == IF IsSeq(column_names) THEN column_names.v ELSE <<column_names.v>>
    IN  Plan(Stmt("UPDATE", table_name, cols, Len(cols), search_condition, FALSE, ""),
             FALSE,
             IF IsSeq(values) THEN values ELSE PyTuple(<<values>>))

SqliteUpdateRun(c, table_name, column_names, values, search_condition, force_commit, fault) ==
  LET listed(ti) ==
        IF ti.raised # "" THEN ti
        ELSE RunPlanned(ti.c, ti.sent,
                        UpdatePlan(table_name, StarColumns(ti.ret), values,
                                   search_condition),
                        force_commit)
  IN  IF column_names = PyStr("*")
      THEN listed(SqliteTableInfoRun(c, table_name, FALSE, fault))
      ELSE RunPlanned(c, <<>>,
                      UpdatePlan(table_name, column_names, values, search_condition),
                      force_commit)

SqliteDeleteRun(c, table_name, search_condition, force_commit) ==
  RunPlanned(c, <<>>,
             Plan(Stmt("DELETE", table_name, <<>>, 0, search_condition, FALSE, ""),
                  FALSE, NoParams),
             force_commit)

\* sqlite_select with the FROM and WHERE sections
\* the result of a query that ran as x: shaped rows, or None after a failure
Fetched(x, return_list, prettify_output) ==
  IF x.ok
  THEN Out(x.c, x.sent, ShapeResult(PyList(x.rows), return_list, prettify_output), "")
  ELSE Out(x.c, x.sent, PyNone, "")

SqliteSelectRun(c, table_name, column_names, where, return_list, prettify_output, force_commit) ==
  LET cols == IF IsSeq(column_names) THEN column_names.v ELSE <<column_names.v>>
      st == Stmt("SELECT", table_name, cols, 0, where, FALSE, "")
  IN  Fetched(RunPlan(c, Plan(st, FALSE, NoParams), force_commit),
              return_list, prettify_output)

\* sqlite_count_rows: no rollback on failure
SqliteCountRowsRun(c, table_name, search_condition) ==
  LET st == Stmt("COUNT", table_name, <<>>, 0, search_condition, FALSE, "")
      after(x) ==
        Out(x.c, <<Handed(st, NoParams, FALSE, x.ok)>>,
            IF x.ok THEN x.rows[1].v[1] ELSE PyNone, "")
  IN  after(CursorExecute(c, st, NoParams))

\* sqlite_execute: the placeholders after VALUES are counted to tell a
\* batch of one-value rows from one row
ExecutePlan(statement, values) ==
  LET quest_marks == IF statement.kind = "INSERT" THEN statement.nq ELSE 0
  IN  IF IsSeq(values)
      THEN IF Len(values.v) = 0 THEN PlanRaise("IndexError")
           ELSE IF IsSeq(values.v[1]) THEN Plan(statement, TRUE, values)
           ELSE IF quest_marks = 1 /\ Len(values.v) > 1
                THEN Plan(statement, TRUE, WrapScalars(values))
                ELSE Plan(statement, FALSE, values)
      ELSE Plan(statement, FALSE, PyTuple(<<values>>))

\* values = PyNone is "no values": the statement is executed without
\* parameters; every exception stays inside the handler
SqliteExecuteRun(c, statement, values, return_list, prettify_output, force_commit) ==
  LET planned(plan) ==
        IF plan.raise # ""
        THEN Out(ConnRollback(c), <<>>, PyNone, "")
        ELSE Fetched(RunPlan(c, plan, force_commit), return_list, prettify_output)
  IN  planned(IF values = PyNone THEN Plan(statement, FALSE, NoParams)
              ELSE ExecutePlan(statement, values))

(***************************************************************************)
(* A session on one table.  Table t has one or two columns, with or        *)
(* without a primary key on the first; table v does not exist.             *)
(***************************************************************************)
ScalarArgs == {PyInt(x) : x \in Vals}

\* flat sequences of 1..MaxLen scalars
FlatArgs == {PyList(s) : s \in (SeqsUpTo(ScalarArgs, MaxLen) \ {<<>>})}

\* the value that accompanies key x in a generated two-column row
Partner(x) == MaxVal + 1 - x

\* sequences of 1..MaxBatch rows of one width (1 or 2), one row per key
BatchArgs ==
  {PyList([i \in 1..Len(ks) |-> PyList(<<PyInt(ks[i])>>)]) :
     ks \in (SeqsUpTo(Vals, MaxBatch) \ {<<>>})}
  \cup
  {PyList([i \in 1..Len(ks) |-> PyList(<<PyInt(ks[i]), PyInt(Partner(ks[i]))>>)]) :
     ks \in (SeqsUpTo(Vals, MaxBatch) \ {<<>>})}

\* a batch whose second row is too short for two columns and too long
\* for none: rows of different widths
RaggedArg == PyList(<<PyList(<<PyInt(1), PyInt(1)>>), PyList(<<PyInt(MaxVal)>>)>>)

ValueArgs == ScalarArgs \cup FlatArgs \cup BatchArgs \cup {RaggedArg}

ColumnArgs == {PyStr("a"), PyStr("*"), PyList(<<"a">>), PyList(<<"a", "b">>)}

TableArgs == {"t", "v"}

CondArgs == {CondAll, CondEq("a", 1)}

Schemas ==
  {[cols |-> <<"a">>, pk |-> FALSE, rows |-> <<>>],
   [cols |-> <<"a">>, pk |-> TRUE, rows |-> <<>>],
   [cols |-> <<"a", "b">>, pk |-> TRUE, rows |-> <<>>]}

RowsWithin(d) == \A n \in DOMAIN d : Len(d[n].rows) <= MaxRows

Idle == call = NoCall

\* the state a handler leaves behind; pending counts the calls that have
\* left the current transaction open
Finish(o, c) ==
  /\ SetConn(o.c)
  /\ pending' = IF o.c.inTxn THEN pending + 1 ELSE 0
  /\ pending' <= MaxPending
  /\ sent' = o.sent
  /\ ret' = o.ret
  /\ raised' = o.raised
  /\ call' = c
  /\ pre' = Conn

Init ==
  /\ \E s \in Schemas : db = [n \in Names |-> IF n = "t" THEN s ELSE Absent]
  /\ committed = db
  /\ inTxn = FALSE
  /\ fk = FALSE
  /\ pending = 0
  /\ call = NoCall
  /\ sent = <<>>
  /\ ret = PyNone
  /\ raised = ""
  /\ pre = <<>>

\* control is back with the caller, which goes on to its next statement
Return ==
  /\ ~Idle
  /\ call' = NoCall
  /\ sent' = <<>>
  /\ ret' = PyNone
  /\ raised' = ""
  /\ pre' = <<>>
  /\ UNCHANGED <<db, committed, inTxn, fk, pending>>

SqliteCommit ==
  /\ Idle
  /\ inTxn
  /\ Finish(SqliteCommitRun(Conn), [op |-> "commit"])

SqliteInsert ==
  /\ Idle
  /\ \E table_name \in TableArgs, column_names \in ColumnArgs, values \in ValueArgs,
        replace \in BOOLEAN, force_commit \in BOOLEAN, fault \in BOOLEAN :
       \E o \in {SqliteInsertRun(Conn, table_name, column_names, values, replace,
                                 force_commit, fault)} :
           /\ fault => column_names = PyStr("*")
           /\ table_name = "v" => (~replace /\ force_commit)
           /\ RowsWithin(o.c.db)
           /\ Finish(o, [op |-> "insert", table_name |-> table_name,
                         column_names |-> column_names, values |-> values,
                         replace |-> replace, force_commit |-> force_commit,
                         fault |-> fault])

SqliteUpdate ==
  /\ Idle
  /\ \E table_name \in TableArgs, column_names \in ColumnArgs,
        values \in ScalarArgs \cup FlatArgs \cup {RaggedArg},
        search_condition \in CondArgs, force_commit \in BOOLEAN, fault \in BOOLEAN :
       \E o \in {SqliteUpdateRun(Conn, table_name, column_names, values,
                                 search_condition, force_commit, fault)} :
           /\ fault => column_names = PyStr("*")
           /\ table_name = "v" => force_commit
           /\ Finish(o, [op |-> "update", table_name |-> table_name,
                         column_names |-> column_names, values |-> values,
                         search_condition |-> search_condition,
                         force_commit |-> force_commit, fault |-> fault])

SqliteDelete ==
  /\ Idle
  /\ \E table_name \in TableArgs, search_condition \in CondArgs, force_commit \in BOOLEAN :
       Finish(SqliteDeleteRun(Conn, table_name, search_condition, force_commit),
              [op |-> "delete", table_name |-> table_name,
               search_condition |-> search_condition, force_commit |-> force_commit])

SqliteSelect ==
  /\ Idle
  /\ \E table_name \in TableArgs, column_names \in ColumnArgs,
        where \in {NoCond, CondEq("a", 1)},
        prettify_output \in BOOLEAN, force_commit \in BOOLEAN :
       Finish(SqliteSelectRun(Conn, table_name, column_names, where, TRUE,
                              prettify_output, force_commit),
              [op |-> "select", table_name |-> table_name,
               column_names |-> column_names, where |-> where,
               prettify_output |-> prettify_output,
               force_commit |-> force_commit])

SqliteCountRows ==
  /\ Idle
  /\ \E table_name \in TableArgs, search_condition \in {NoCond, CondEq("a", 1)} :
       Finish(SqliteCountRowsRun(Conn, table_name, search_condition),
              [op |-> "count_rows", table_name |-> table_name,
               search_condition |-> search_condition])

StatementArgs ==
  {Stmt("INSERT", "t", <<"a">>, 1, NoCond, FALSE, ""),
   Stmt("INSERT", "t", <<"a", "b">>, 2, NoCond, FALSE, ""),
   Stmt("SELECT", "t", <<"*">>, 0, NoCond, FALSE, ""),
   Stmt("SELECT", "v", <<"*">>, 0, NoCond, FALSE, "")}

SqliteExecute ==
  /\ Idle
  /\ \E statement \in StatementArgs,
        values \in ScalarArgs \cup FlatArgs \cup {RaggedArg, PyNone},
        force_commit \in BOOLEAN :
       \E o \in {SqliteExecuteRun(Conn, statement, values, TRUE, TRUE, force_commit)} :
           /\ RowsWithin(o.c.db)
           /\ Finish(o, [op |-> "execute", statement |-> statement,
                         values |-> values, force_commit |-> force_commit])

Next ==
  \/ Return
  \/ SqliteCommit
  \/ SqliteInsert
  \/ SqliteUpdate
  \/ SqliteDelete
  \/ SqliteSelect
  \/ SqliteCountRows
  \/ SqliteExecute

Spec == Init /\ [][Next]_vars

(***************************************************************************)
(* Claims about the result normaliser.                                     *)
(***************************************************************************)
\* the Python values of one raw row
RowScalars(row) == [j \in 1..Len(row) |-> PyScalar(row[j])]

\* x is a sequence holding exactly the values of row, in order
HoldsRow(x, row) == IsSeq(x) /\ x.v = RowScalars(row)

\* x is the flat sequence of the single values of the rows, in row order
FlatColumn(x, raw) ==
  /\ IsSeq(x)
  /\ Len(x.v) = Len(raw)
  /\ \A i \in 1..Len(raw) : x.v[i] = PyScalar(raw[i][1])

\* x is the sequence of the rows, none of them flattened
RowSequence(x, raw) ==
  /\ IsSeq(x)
  /\ Len(x.v) = Len(raw)
  /\ \A i \in 1..Len(raw) : HoldsRow(x.v[i], raw[i])

EmptyMarker(x) == IsSeq(x) /\ Len(x.v) = 0 /\ x # PyNone

\* C5 as stated: a select returns the empty marker for zero rows, a flat
\* sequence of N scalars for width 1 (whatever the prettify option), the
\* flat row (prettify on) or a one-element row sequence (prettify off) for
\* one row of width > 1, and the unflattened rows otherwise.
C5_AsStated ==
  call.op = "shaped" =>
    LET raw == call.raw
        N == Len(call.raw)
    IN  /\ N = 0 => EmptyMarker(ret)
        /\ (call.W = 1 /\ N >= 1) => FlatColumn(ret, raw)
        /\ (call.W > 1 /\ N = 1 /\ call.prettify_output) => HoldsRow(ret, raw[1])
        /\ (call.W > 1 /\ N = 1 /\ ~call.prettify_output) => RowSequence(ret, raw)
        /\ (call.W > 1 /\ N > 1) => RowSequence(ret, raw)

\* C5 amended: as C5, but width 1 is flattened to N scalars only when the
\* prettify option is enabled; with prettify disabled the N one-element
\* rows are returned unflattened.
C5_Normalised ==
  call.op = "shaped" =>
    LET raw == call.raw
        N == Len(call.raw)
    IN  /\ N = 0 => EmptyMarker(ret)
        /\ (call.W = 1 /\ N >= 1 /\ call.prettify_output) => FlatColumn(ret, raw)
        /\ (call.W = 1 /\ N >= 1 /\ ~call.prettify_output) => RowSequence(ret, raw)
        /\ (call.W > 1 /\ N = 1 /\ call.prettify_output) => HoldsRow(ret, raw[1])
        /\ (call.W > 1 /\ N = 1 /\ ~call.prettify_output) => RowSequence(ret, raw)
        /\ (call.W > 1 /\ N > 1) => RowSequence(ret, raw)

\* a single row of width 2 was selected with prettify on and came back flat
C5_Witness ==
  /\ call.op = "shaped"
  /\ call.W = 2 /\ Len(call.raw) = 1 /\ call.prettify_output
  /\ HoldsRow(ret, call.raw[1])

\* the rows that a normalised output of rows of width W stands for: rows
\* that are still sequences are taken as they are, scalars are one row each
\* when W = 1 and the values of a single row otherwise
Recover(W, out) ==
  IF Len(out.v) = 0 THEN <<>>
  ELSE IF IsSeq(out.v[1]) THEN [i \in 1..Len(out.v) |-> out.v[i].v]
  ELSE IF W = 1 THEN [i \in 1..Len(out.v) |-> <<out.v[i]>>]
  ELSE <<out.v>>

\* C6: with prettify enabled and the row width known, the normalised output
\* determines the raw result: its row count and its rows are recovered from
\* the width and the output alone, so two raw results of one width with the
\* same output are the same raw result.
C6_Invertible ==
  (call.op = "shaped" /\ call.prettify_output) =>
    Recover(call.W, ret) = [i \in 1..Len(call.raw) |-> RowScalars(call.raw[i])]

\* a single row of width 2 was flattened, and no other raw result of width 2
\* (in particular none with two rows) normalises to the same value
C6_Witness ==
  /\ call.op = "shaped" /\ call.prettify_output
  /\ call.W = 2 /\ Len(call.raw) = 1
  /\ ret.v = RowScalars(call.raw[1])

(***************************************************************************)
(* Claims about sqlite_insert.                                             *)
(***************************************************************************)
\* the INSERT statement of the last call, as it was handed to the cursor
InsertHanded == sent[Len(sent)]

InsertWasHanded ==
  /\ call.op = "insert"
  /\ raised = ""
  /\ Len(sent) >= 1
  /\ sent[Len(sent)].st.kind = "INSERT"

RowCount(d, n) == IF Exists(d, n) THEN Len(d[n].rows) ELSE 0

\* C1: whenever the engine rejects the statement of an insert (alone or at
\* any row of a batch), the table holds as many rows after sqlite_insert
\* returns as before the call, and sqlite_insert returns None to the caller
\* without an exception.
C1_AsStated ==
  (InsertWasHanded /\ ~InsertHanded.ok) =>
    /\ RowCount(db, call.table_name) = RowCount(pre.db, call.table_name)
    /\ ret = PyNone
    /\ raised = ""

\* the column list of the last insert as a sequence of names
ColumnList ==
  IF call.column_names = PyStr("*") THEN pre.db[call.table_name].cols
  ELSE IF IsSeq(call.column_names) THEN call.column_names.v
       ELSE <<call.column_names.v>>

IsFlat(values) ==
  IsSeq(values) /\ \A i \in 1..Len(values.v) : values.v[i].t = "int"

\* the stored row that holds vals under the named columns, NULL elsewhere
RowFor(tbl, cols, vals) ==
  [j \in 1..Len(tbl.cols) |->
     IF \E k \in 1..Len(cols) : cols[k] = tbl.cols[j]
     THEN vals[ColIndex(cols, tbl.cols[j])].v
     ELSE Null]

\* how many times x occurs in the sequence s
Occurrences(s, x) == Cardinality({i \in 1..Len(s) : s[i] = x})

\* the rows of `after` are the rows of `before` and the rows of `added`
SameRowsPlus(after, before, added) ==
  /\ Len(after) = Len(before) + Len(added)
  /\ \A i \in 1..Len(after) :
       Occurrences(after, after[i]) =
         Occurrences(before, after[i]) + Occurrences(added, after[i])

\* C2: a flat sequence of N > 1 scalars for one column is handed to the
\* engine as N one-value rows in order, and when the engine accepts them the
\* table gains exactly those N rows (in that order when the table has no
\* key); a flat sequence of C scalars for C >= 2 columns is handed over as
\* one row, and the table gains exactly that row.
C2_FlatCardinality ==
  (InsertWasHanded /\ IsFlat(call.values)) =>
    LET C == Len(ColumnList)
        N == Len(call.values.v)
        t == call.table_name
        h == InsertHanded
        added == IF C = 1
                 THEN [i \in 1..N |-> RowFor(db[t], ColumnList, <<call.values.v[i]>>)]
                 ELSE <<RowFor(db[t], ColumnList, call.values.v)>>
    IN  /\ (C = 1 /\ N > 1) =>
             /\ h.many
             /\ Len(h.params.v) = N
             /\ \A i \in 1..N : h.params.v[i].v = <<call.values.v[i]>>
             /\ (h.ok /\ ~call.replace) =>
                  /\ SameRowsPlus(db[t].rows, pre.db[t].rows, added)
                  /\ ~db[t].pk => db[t].rows = pre.db[t].rows \o added
        /\ (C >= 2 /\ N = C) =>
             /\ ~h.many
             /\ h.params.v = call.values.v
             /\ (h.ok /\ ~call.replace) =>
                  SameRowsPlus(db[t].rows, pre.db[t].rows, added)

\* two values for one column were accepted and became two rows
C2_WitnessColumn ==
  /\ InsertWasHanded /\ IsFlat(call.values)
  /\ Len(ColumnList) = 1 /\ Len(call.values.v) = 2
  /\ InsertHanded.ok
  /\ Len(db[call.table_name].rows) = Len(pre.db[call.table_name].rows) + 2

\* two values for two columns were accepted and became one row
C2_WitnessRow ==
  /\ InsertWasHanded /\ IsFlat(call.values)
  /\ Len(ColumnList) = 2 /\ Len(call.values.v) = 2
  /\ InsertHanded.ok
  /\ Len(db[call.table_name].rows) = Len(pre.db[call.table_name].rows) + 1

C2_Witness == C2_WitnessColumn \/ C2_WitnessRow

\* what selecting every row of the table returns, unshaped
SelectAll(c, table_name) ==
  SqliteSelectRun(c, table_name, PyStr("*"), NoCond, FALSE, FALSE, FALSE).ret

IsBatch(values, C) ==
  /\ IsSeq(values)
  /\ \A i \in 1..Len(values.v) :
       /\ IsSeq(values.v[i])
       /\ Len(values.v[i].v) = C
       /\ \A j \in 1..C : values.v[i].v[j].t = "int"

\* C4: when R rows of width C are inserted through the multi-row path into
\* a table of C columns, selecting all rows afterwards returns what it
\* returned before plus exactly those R rows, each of width C: exactly the
\* R rows when the table was empty, and the rows of all the batches,
\* whatever their order, after several inserts.
C4_BatchThenSelect ==
  (/\ InsertWasHanded /\ InsertHanded.ok /\ ~call.replace
   /\ Exists(pre.db, call.table_name)
   /\ ColumnList = pre.db[call.table_name].cols
   /\ IsBatch(call.values, Len(ColumnList)))
  =>
    LET t == call.table_name
        C == Len(ColumnList)
        R == Len(call.values.v)
        before == SelectAll(pre, t)
        after == SelectAll(Conn, t)
        added == [i \in 1..R |-> PyTuple(call.values.v[i].v)]
    IN  /\ SameRowsPlus(after.v, before.v, added)
        /\ \A i \in 1..Len(after.v) : Len(after.v[i].v) = C
        /\ Len(before.v) = 0 => Len(after.v) = R

\* two rows of width 2 went into the empty two-column table and a select of
\* all rows returns two rows
C4_Witness ==
  /\ InsertWasHanded /\ InsertHanded.ok /\ ~call.replace
  /\ IsBatch(call.values, 2) /\ Len(call.values.v) = 2
  /\ Len(pre.db[call.table_name].rows) = 0
  /\ Len(SelectAll(Conn, call.table_name).v) = 2

(***************************************************************************)
(* The cardinality rule: how each path turns column_names and values into  *)
(* the rows of parameters it hands to the cursor.                          *)
(***************************************************************************)
ColumnShapes ==
  {PyStr("a"), PyList(<<"a">>), PyList(<<"a", "b">>), PyList(<<"a", "b", "c">>)}

\* the rows of parameters a plan hands over, or the exception it raises
Outcome(plan) ==
  IF plan.raise # "" THEN [raise |-> plan.raise, rows |-> <<>>]
  ELSE IF plan.execute_many
       THEN [raise |-> "", rows |-> [i \in 1..Len(plan.values.v) |-> plan.values.v[i].v]]
       ELSE [raise |-> "", rows |-> <<plan.values.v>>]

InitClassify ==
  /\ db = <<>> /\ committed = <<>> /\ inTxn = FALSE /\ fk = FALSE /\ pending = 0
  /\ sent = <<>> /\ ret = PyNone /\ raised = "" /\ pre = <<>>
  /\ \E column_names \in ColumnShapes, values \in ValueArgs :
       call = [op |-> "shape", column_names |-> column_names, values |-> values]

\* each path classifies the same column_names and values
Classify ==
  /\ call.op = "shape"
  /\ call' = [op |-> "classified", column_names |-> call.column_names,
              values |-> call.values,
              insert |-> Outcome(InsertPlan("t", call.column_names, call.values, FALSE)),
              replace |-> Outcome(InsertPlan("t", call.column_names, call.values, TRUE)),
              update |-> Outcome(UpdatePlan("t", call.column_names, call.values, CondAll))]
  /\ UNCHANGED <<db, committed, inTxn, fk, pending, sent, ret, raised, pre>>

NextClassify == Classify

SpecClassify == InitClassify /\ [][NextClassify]_vars

\* the four-step rule of the specification, as rows of parameters
FourStepRule(C, values) ==
  IF IsSeq(values) /\ IsSeq(values.v[1])
  THEN [i \in 1..Len(values.v) |-> values.v[i].v]
  ELSE IF C = 1 /\ IsSeq(values) /\ Len(values.v) > 1
       THEN [i \in 1..Len(values.v) |-> <<values.v[i]>>]
       ELSE IF ~IsSeq(values)
            THEN <<<<values>>>>
            ELSE <<values.v>>

\* C3: for every column count and every shape of values, the insert path,
\* the replace path and the update path hand over the rows of parameters
\* that the four-step cardinality rule prescribes.
C3_AsStated ==
  call.op = "classified" =>
    LET C == IF IsSeq(call.column_names) THEN Len(call.column_names.v) ELSE 1
        rule == [raise |-> "", rows |-> FourStepRule(C, call.values)]
    IN  /\ call.insert = rule
        /\ call.replace = rule
        /\ call.update = rule

(***************************************************************************)
(* The handlers that change or read the schema.  A table name or a column  *)
(* name is one character long, so indexing a str argument gives the name   *)
(* itself at position 0 and an IndexError after it.                        *)
(***************************************************************************)
Elems(x) == IF IsSeq(x) THEN x.v ELSE <<x.v>>

PragmaFK(arg) == Stmt("PRAGMA_FK", "", <<>>, 0, NoCond, FALSE, arg)

\* what a loop has done: h is the statement it handed over first, r is
\* what the rest of the loop did
Looped(h, r) == [ok |-> r.ok, c |-> r.c, sent |-> <<h>> \o r.sent]

RECURSIVE ExecuteAll(_, _, _)
ExecuteAllKeepGoing(c, statements, i) ==
  LET step(x) ==
        Looped(Handed(statements[i], NoParams, FALSE, x.ok),
               ExecuteAll(x.c, statements, i + 1))
  IN  IF i > Len(statements) THEN [ok |-> TRUE, c |-> c, sent |-> <<>>]
      ELSE step(CursorExecute(c, statements[i], NoParams))

\* for statement in statements: self.cursor.execute(statement), inside one
\* try block: the first rejected statement raises and ends the loop
ExecuteAll(c, statements, i) ==
  LET step(x) ==
        IF ~x.ok
        THEN [ok |-> FALSE, c |-> x.c,
              sent |-> <<Handed(statements[i], NoParams, FALSE, FALSE)>>]
        ELSE Looped(Handed(statements[i], NoParams, FALSE, TRUE),
                    ExecuteAll(x.c, statements, i + 1))
  IN  IF i > Len(statements) THEN [ok |-> TRUE, c |-> c, sent |-> <<>>]
      ELSE step(CursorExecute(c, statements[i], NoParams))

\* try: the statements; except: rollback; else: commit when asked to
TryAll(c, statements, force_commit) ==
  LET after(x) ==
        [ok |-> x.ok,
         c |-> IF ~x.ok THEN ConnRollback(x.c)
               ELSE IF force_commit THEN ConnCommit(x.c) ELSE x.c,
         sent |-> x.sent]
  IN  after(ExecuteAll(c, statements, 1))

\* a handler that returns None after its try block has run as x
Tried(x) == Out(x.c, x.sent, PyNone, "")

\* sqlite_create_table with column definitions and an optional primary key
SqliteCreateTableRun(c, table_name, column_definitions, primary_key, force_commit) ==
  Tried(TryAll(c, <<Stmt("CREATE", table_name, Elems(column_definitions), 0,
                         NoCond, primary_key # PyNone, "")>>,
               force_commit))

\* sqlite_drop_table: foreign keys off, the DROP statements, foreign keys on
\* again unless a DROP failed
SqliteDropTableRun(c, table_name, disable_foreign_keys, force_commit) ==
  LET names == Elems(table_name)
      statements == [i \in 1..Len(names) |->
                       Stmt("DROP", names[i], <<>>, 0, NoCond, FALSE, "")]
      enabled(off, x, on) == Out(on.c, off.sent \o x.sent \o on.sent, PyNone, "")
      dropped(off, x) ==
        enabled(off, x,
                IF x.ok /\ disable_foreign_keys
                THEN TryAll(x.c, <<PragmaFK("ON")>>, force_commit)
                ELSE [ok |-> TRUE, c |-> x.c, sent |-> <<>>])
      disabled(off) == dropped(off, TryAll(off.c, statements, force_commit))
  IN  disabled(IF disable_foreign_keys
               THEN TryAll(c, <<PragmaFK("OFF")>>, force_commit)
               ELSE [ok |-> TRUE, c |-> c, sent |-> <<>>])

\* sqlite_rename_table: new_name[i] is read for every i while the
\* statements are built, before the try block
SqliteRenameTableRun(c, old_name, new_name, force_commit) ==
  IF IsSeq(old_name) /\ Len(Elems(new_name)) < Len(old_name.v)
  THEN Out(c, <<>>, PyNone, "IndexError")
  ELSE
    LET old == Elems(old_name)
        new == Elems(new_name)
        statements == [i \in 1..Len(old) |->
                         Stmt("RENAME", old[i], <<>>, 0, NoCond, FALSE, new[i])]
    IN  Tried(TryAll(c, statements, force_commit))

\* sqlite_add_column: the try block tests `statements`, which is bound only
\* when column_definition is a sequence; the UnboundLocalError of the other
\* case is caught like an engine failure
SqliteAddColumnRun(c, table_name, column_definition, force_commit) ==
  IF ~IsSeq(column_definition)
  THEN Out(ConnRollback(c), <<>>, PyNone, "")
  ELSE
    LET statements == [i \in 1..Len(column_definition.v) |->
                         Stmt("ADDCOL", table_name, <<>>, 0, NoCond, FALSE,
                              column_definition.v[i])]
    IN  Tried(TryAll(c, statements, force_commit))

\* sqlite_rename_column: as sqlite_add_column, with new_name[i] read while
\* the statements are built
SqliteRenameColumnRun(c, table_name, old_name, new_name, force_commit) ==
  IF ~IsSeq(old_name)
  THEN Out(ConnRollback(c), <<>>, PyNone, "")
  ELSE IF Len(Elems(new_name)) < Len(old_name.v)
       THEN Out(c, <<>>, PyNone, "IndexError")
       ELSE
         LET new == Elems(new_name)
             statements == [i \in 1..Len(old_name.v) |->
                              Stmt("RENCOL", table_name, <<old_name.v[i]>>, 0,
                                   NoCond, FALSE, new[i])]
         IN  Tried(TryAll(c, statements, force_commit))

\* sqlite_tables: after a failure `result` is read without a value
SqliteTablesRun(c, prettify_output, fault) ==
  LET st == Stmt("TABLES", "", <<>>, 0, NoCond, FALSE, "")
      after(x) ==
        IF fault \/ ~x.ok
        THEN Out(ConnRollback(c), <<Handed(st, NoParams, FALSE, FALSE)>>,
                 PyNone, "UnboundLocalError")
        ELSE Out(x.c, <<Handed(st, NoParams, FALSE, TRUE)>>,
                 IF prettify_output THEN PrettifyOutput(PyList(x.rows))
                 ELSE PyList(x.rows), "")
  IN  after(CursorExecute(c, st, NoParams))

\* sqlite_schema: fetchone gives the first row or None
SqliteSchemaRun(c, table_name, prettify_output, fault) ==
  LET st == Stmt("SCHEMA", table_name, <<>>, 0, NoCond, FALSE, "")
      after(x) ==
        IF fault \/ ~x.ok
        THEN Out(ConnRollback(c), <<Handed(st, NoParams, FALSE, FALSE)>>,
                 PyNone, "UnboundLocalError")
        ELSE Out(x.c, <<Handed(st, NoParams, FALSE, TRUE)>>,
                 IF x.rows = <<>> THEN PyNone
                 ELSE IF prettify_output THEN x.rows[1].v[1] ELSE x.rows[1],
                 "")
  IN  after(CursorExecute(c, st, NoParams))

(***************************************************************************)
(* A session that changes the schema.  Tables t and u exist, v does not;   *)
(* an insert called with force_commit=False leaves a transaction open.     *)
(***************************************************************************)
ColNames == {"a", "b"}

\* one name, or a sequence of 1..MaxBatch names
OneOrMore(S) ==
  {PyStr(n) : n \in S} \cup {PyList(q) : q \in (SeqsUpTo(S, MaxBatch) \ {<<>>})}

\* the new name that the generated calls give to a table or a column
NewName(n) ==
  CASE n = "t" -> "v" [] n = "v" -> "u" [] n = "u" -> "t"
    [] n = "a" -> "b" [] OTHER -> "a"

\* an old and a new argument of the same kind and length, and one pair of
\* sequences whose new names run out
Parallel(S) ==
  {<<PyStr(n), PyStr(NewName(n))>> : n \in S}
  \cup {<<PyList(q), PyList([i \in 1..Len(q) |-> NewName(q[i])])>> :
          q \in (SeqsUpTo(S, MaxBatch) \ {<<>>})}
  \cup {<<PyList([i \in 1..2 |-> CHOOSE n \in S : TRUE]),
          PyList(<<CHOOSE n \in S : TRUE>>)>>}

InitDDL ==
  /\ db = [n \in Names |->
             IF n = "t" THEN [cols |-> <<"a">>, pk |-> TRUE, rows |-> <<>>]
             ELSE IF n = "u" THEN [cols |-> <<"a">>, pk |-> FALSE, rows |-> <<>>]
             ELSE Absent]
  /\ committed = db
  /\ inTxn = FALSE
  /\ fk = FALSE
  /\ pending = 0
  /\ call = NoCall
  /\ sent = <<>>
  /\ ret = PyNone
  /\ raised = ""
  /\ pre = <<>>

\* sqlite_insert of one value into column a of table t
SqliteInsertValue ==
  /\ Idle
  /\ \E values \in {PyInt(1)}, force_commit \in BOOLEAN :
       \E o \in {SqliteInsertRun(Conn, "t", PyStr("a"), values, FALSE,
                                 force_commit, FALSE)} :
           /\ Len(o.c.db["t"].rows) <= 1
           /\ Finish(o, [op |-> "insert", table_name |-> "t",
                         column_names |-> PyStr("a"), values |-> values,
                         replace |-> FALSE, force_commit |-> force_commit,
                         fault |-> FALSE])

SqliteCreateTable ==
  /\ Idle
  /\ \E table_name \in TableArgs,
        definition \in {<<PyList(<<"a", "b">>), PyStr("a")>>},
        force_commit \in BOOLEAN :
       Finish(SqliteCreateTableRun(Conn, table_name, definition[1],
                                   definition[2], force_commit),
              [op |-> "create_table", table_name |-> table_name,
               column_definitions |-> definition[1],
               primary_key |-> definition[2], force_commit |-> force_commit])

SqliteDropTable ==
  /\ Idle
  /\ \E table_name \in OneOrMore(Names), disable_foreign_keys \in BOOLEAN,
        force_commit \in BOOLEAN :
       Finish(SqliteDropTableRun(Conn, table_name, disable_foreign_keys,
                                 force_commit),
              [op |-> "drop_table", table_name |-> table_name,
               disable_foreign_keys |-> disable_foreign_keys,
               force_commit |-> force_commit])

SqliteRenameTable ==
  /\ Idle
  /\ \E names \in Parallel(Names), force_commit \in BOOLEAN :
       Finish(SqliteRenameTableRun(Conn, names[1], names[2], force_commit),
              [op |-> "rename_table", old_name |-> names[1],
               new_name |-> names[2], force_commit |-> force_commit])

SqliteAddColumn ==
  /\ Idle
  /\ \E table_name \in {"t"}, column_definition \in OneOrMore(ColNames),
        force_commit \in BOOLEAN :
       Finish(SqliteAddColumnRun(Conn, table_name, column_definition, force_commit),
              [op |-> "add_column", table_name |-> table_name,
               column_definition |-> column_definition,
               force_commit |-> force_commit])

SqliteRenameColumn ==
  /\ Idle
  /\ \E table_name \in {"t"}, names \in Parallel(ColNames),
        force_commit \in BOOLEAN :
       Finish(SqliteRenameColumnRun(Conn, table_name, names[1], names[2],
                                    force_commit),
              [op |-> "rename_column", table_name |-> table_name,
               old_name |-> names[1], new_name |-> names[2],
               force_commit |-> force_commit])

SqliteTables ==
  /\ Idle
  /\ \E prettify_output \in BOOLEAN, fault \in BOOLEAN :
       Finish(SqliteTablesRun(Conn, prettify_output, fault),
              [op |-> "tables", prettify_output |-> prettify_output,
               fault |-> fault])

SqliteTableInfo ==
  /\ Idle
  /\ \E table_name \in TableArgs, prettify_output \in BOOLEAN, fault \in BOOLEAN :
       Finish(SqliteTableInfoRun(Conn, table_name, prettify_output, fault),
              [op |-> "table_info", table_name |-> table_name,
               prettify_output |-> prettify_output, fault |-> fault])

SqliteSchema ==
  /\ Idle
  /\ \E table_name \in {"t"}, prettify_output \in BOOLEAN, fault \in BOOLEAN :
       Finish(SqliteSchemaRun(Conn, table_name, prettify_output, fault),
              [op |-> "schema", table_name |-> table_name,
               prettify_output |-> prettify_output, fault |-> fault])

NextDDL ==
  \/ Return
  \/ SqliteCommit
  \/ SqliteInsertValue
  \/ SqliteCountRows
  \/ SqliteCreateTable
  \/ SqliteDropTable
  \/ SqliteRenameTable
  \/ SqliteAddColumn
  \/ SqliteRenameColumn
  \/ SqliteTables
  \/ SqliteTableInfo
  \/ SqliteSchema

SpecDDL == InitDDL /\ [][NextDDL]_vars

(***************************************************************************)
(* Claims about the schema operations.                                     *)
(***************************************************************************)
\* the statements of the call other than the PRAGMA that frames them
Statements == SelectSeq(sent, LAMBDA h : h.st.kind # "PRAGMA_FK")

\* C7: sqlite_drop_table given two table names removes both tables when
\* both exist; when the first exists and the second does not, the first
\* table is no longer present after the call returns.
C7_AsStated ==
  (/\ call.op = "drop_table"
   /\ IsSeq(call.table_name)
   /\ Len(call.table_name.v) = 2
   /\ call.table_name.v[1] # call.table_name.v[2]
   /\ Exists(pre.db, call.table_name.v[1]))
  => /\ ~Exists(db, call.table_name.v[1])
     /\ Exists(pre.db, call.table_name.v[2]) => ~Exists(db, call.table_name.v[2])

BatchedOps == {"drop_table", "rename_table", "add_column", "rename_column"}

\* the sequence argument of a batched call
Elements ==
  CASE call.op = "drop_table" -> call.table_name
    [] call.op = "rename_table" -> call.old_name
    [] call.op = "add_column" -> call.column_definition
    [] call.op = "rename_column" -> call.old_name

\* a batched call with one new name for every old name
IsBatchedCall ==
  /\ call.op \in BatchedOps
  /\ IsSeq(Elements)
  /\ call.op \in {"rename_table", "rename_column"} =>
       IsSeq(call.new_name) /\ Len(call.new_name.v) = Len(call.old_name.v)

\* the statement that element i of the batch stands for
StatementFor(i) ==
  CASE call.op = "drop_table" ->
         Stmt("DROP", call.table_name.v[i], <<>>, 0, NoCond, FALSE, "")
    [] call.op = "rename_table" ->
         Stmt("RENAME", call.old_name.v[i], <<>>, 0, NoCond, FALSE, call.new_name.v[i])
    [] call.op = "add_column" ->
         Stmt("ADDCOL", call.table_name, <<>>, 0, NoCond, FALSE,
              call.column_definition.v[i])
    [] call.op = "rename_column" ->
         Stmt("RENCOL", call.table_name, <<call.old_name.v[i]>>, 0, NoCond, FALSE,
              call.new_name.v[i])

\* C8: a batched drop_table, rename_table, add_column or rename_column hands
\* the engine one statement per element in the caller's order, every
\* statement but the last handed one was accepted, and elements are left
\* without a statement only after a rejected statement.
C8_OnePerElementInOrder ==
  IsBatchedCall =>
    LET h == Statements
        n == Len(Elements.v)
    IN  /\ Len(h) <= n
        /\ \A i \in 1..Len(h) :
             /\ h[i].st = StatementFor(i)
             /\ ~h[i].many
             /\ i < Len(h) => h[i].ok
        /\ Len(h) < n => Len(h) > 0 /\ ~h[Len(h)].ok

\* a batch of two whose first statement was rejected: one statement handed
C8_WitnessStop ==
  /\ IsBatchedCall
  /\ Len(Elements.v) = 2
  /\ Len(Statements) = 1
  /\ ~Statements[1].ok

\* a batch of two whose statements were both accepted, in order
C8_WitnessBoth ==
  /\ IsBatchedCall
  /\ call.op = "rename_table"
  /\ Len(Elements.v) = 2
  /\ Len(Statements) = 2
  /\ Statements[2].ok

C8_Witness == C8_WitnessStop

\* the single name of a column operation names a column the engine would
\* accept on the table as it was before the call
SingleColumnCall ==
  /\ call.op \in {"add_column", "rename_column"}
  /\ Exists(pre.db, call.table_name)
  /\ IF call.op = "add_column"
     THEN /\ ~IsSeq(call.column_definition)
          /\ ~HasCol(pre.db[call.table_name], call.column_definition.v)
     ELSE /\ ~IsSeq(call.old_name) /\ ~IsSeq(call.new_name)
          /\ HasCol(pre.db[call.table_name], call.old_name.v)
          /\ ~HasCol(pre.db[call.table_name], call.new_name.v)

\* C9: sqlite_add_column with a single definition and sqlite_rename_column
\* with a single old and new name hand exactly one ALTER TABLE statement to
\* the engine, and on an existing table the column is added, respectively
\* renamed, when the call returns.
C9_AsStated ==
  SingleColumnCall =>
    /\ Len(sent) = 1
    /\ IF call.op = "add_column"
       THEN HasCol(db[call.table_name], call.column_definition.v)
       ELSE /\ HasCol(db[call.table_name], call.new_name.v)
            /\ ~HasCol(db[call.table_name], call.old_name.v)

\* the engine rejected a statement of the call
EngineRejected == \E i \in 1..Len(sent) : ~sent[i].ok

\* C10: every public operation reacts to the engine rejecting its statement
\* by catching the failure, rolling back and returning normally: no
\* exception leaves the operation and no transaction is left open.
C10_AsStated ==
  (~Idle /\ EngineRejected) => (raised = "" /\ ~inTxn /\ db = committed)

(***************************************************************************)
(* Claims about the metadata queries and the foreign-key switch.           *)
(***************************************************************************)
\* the tuple pragma_table_info gives for column j of tbl
ColumnTuple(tbl, j) ==
  PyTuple(<<PyInt(j - 1), PyStr(tbl.cols[j]), PyStr("INTEGER"), PyInt(0),
            PyNone, PyInt(IF tbl.pk /\ j = 1 THEN 1 ELSE 0)>>)

\* x is a sequence with one tuple per column of tbl, in schema order
ColumnSequence(x, tbl) ==
  /\ IsSeq(x)
  /\ Len(x.v) = Len(tbl.cols)
  /\ \A j \in 1..Len(tbl.cols) : x.v[j] = ColumnTuple(tbl, j)

\* a call of sqlite_table_info that the engine answered
TableInfoAnswered ==
  /\ call.op = "table_info"
  /\ ~call.fault

\* C11: sqlite_table_info returns one (position, name, type, not-null,
\* default, is-primary-key) tuple per column in schema order for an existing
\* table with any number of columns, and for a table that does not exist it
\* fails with an outcome the caller can tell from a result, never an empty
\* column list.
C11_AsStated ==
  TableInfoAnswered =>
    IF Exists(pre.db, call.table_name)
    THEN raised = "" /\ ColumnSequence(ret, pre.db[call.table_name])
    ELSE raised # "" \/ ~IsSeq(ret)

(***************************************************************************)
(* The text of the statements.  A text is the sequence of its pieces: a    *)
(* piece is a keyword, a punctuation mark, a run of white space or a       *)
(* string that the caller passed in.  Two pieces that follow one another   *)
(* are adjacent characters of the statement, so a keyword is a token of    *)
(* its own only when the piece before it is white space or punctuation.    *)
(* In this part the elements of a list are Python values as well.          *)
(***************************************************************************)
WhiteSpace == {" ", "\n", "\n\t", "\n\t ", "\n\t\t", " \n\t\t"}

RECURSIVE Str(_)
RECURSIVE ReprItems(_, _)
\* repr(x): a string is quoted, any other value reads as str(x)
Repr(x) == IF x.t = "str" THEN <<"'", x.v, "'">> ELSE Str(x)

\* repr of the items i.. of a list or a tuple, joined with ", "
ReprItems(items, i) ==
  IF i > Len(items) THEN <<>>
  ELSE IF i = Len(items) THEN Repr(items[i])
       ELSE Repr(items[i]) \o <<",", " ">> \o ReprItems(items, i + 1)

\* str(x), which is what an f-string puts in the place of {x}
Str(x) ==
  CASE x.t = "str" -> <<x.v>>
    [] x.t = "int" -> <<ToString(x.v)>>
    [] x.t = "none" -> <<"None">>
    [] x.t = "list" -> <<"[">> \o ReprItems(x.v, 1) \o <<"]">>
    [] x.t = "tuple" ->
         <<"(">> \o ReprItems(x.v, 1)
                 \o (IF Len(x.v) = 1 THEN <<",">> ELSE <<>>) \o <<")">>

\* sep.join(items) for strings items[i..]
RECURSIVE Joined(_, _, _)
Joined(items, sep, i) ==
  IF i > Len(items) THEN <<>>
  ELSE IF i = Len(items) THEN Str(items[i])
       ELSE Str(items[i]) \o sep \o Joined(items, sep, i + 1)

\* a statement under construction: its pieces so far, or the exception
\* that ended the construction
Ok(text) == [raise |-> "", text |-> text]

Raise(e) == [raise |-> e, text |-> <<>>]

\* statement += more
Cat(a, b) ==
  IF a.raise # "" THEN a
  ELSE IF b.raise # "" THEN b
       ELSE Ok(a.text \o b.text)

RECURSIVE CatAll(_, _)
CatAll(parts, i) ==
  IF i > Len(parts) THEN Ok(<<>>) ELSE Cat(parts[i], CatAll(parts, i + 1))

\* sqlite_select: SELECT [DISTINCT] columns FROM table
SelectHead(table_name, column_names, distinct) ==
  LET head == IF distinct THEN <<"SELECT", " ", "DISTINCT", " ">>
              ELSE <<"SELECT", " ">>
      from == <<"\n", "FROM", " ", table_name>>
  IN  IF IsSeq(column_names)
      THEN IF Len(column_names.v) > 1
           THEN Ok(head \o Joined(column_names.v, <<",", "\n\t">>, 1) \o from)
           ELSE IF Len(column_names.v) = 0 THEN Raise("IndexError")
                ELSE Ok(head \o Str(column_names.v[1]) \o from)
      ELSE Ok(head \o Str(column_names) \o from)

\* one JOIN clause from joins[0], joins[1], joins[2]
JoinClause(joins) ==
  IF Len(joins.v) < 3 THEN Raise("IndexError")
  ELSE Ok(<<"\n\t ">> \o Str(joins.v[1]) \o <<" ", "JOIN", " ">>
          \o Str(joins.v[2]) \o <<" ", "ON", " ">> \o Str(joins.v[3]))

RECURSIVE JoinClauses(_, _)
JoinClauses(join, i) ==
  IF i > Len(join) THEN Ok(<<>>)
  ELSE Cat(JoinClause(join[i]), JoinClauses(join, i + 1))

\* the join argument is a sequence of joins when its first element is a
\* sequence and it has more than one element, one join otherwise
JoinSection(join) ==
  IF join = PyNone THEN Ok(<<>>)
  ELSE IF Len(join.v) = 0 THEN Raise("IndexError")
  ELSE IF IsSeq(join.v[1]) /\ Len(join.v) > 1 THEN JoinClauses(join.v, 1)
  ELSE JoinClause(join)

WhereSection(where) ==
  IF where = PyNone THEN Ok(<<>>)
  ELSE Ok(<<"\n", "WHERE", " ">> \o Str(where))

\* the sequence form starts with the keyword itself, the string form with
\* a line break
OrderBySection(order_by) ==
  IF order_by = PyNone THEN Ok(<<>>)
  ELSE IF IsSeq(order_by)
       THEN IF Len(order_by.v) = 0 THEN Raise("IndexError")
            ELSE Ok(<<"ORDER BY", "\n\t">>
                    \o Joined(order_by.v, <<",", "\n\t">>, 1))
       ELSE Ok(<<"\n", "ORDER BY", " ">> \o Str(order_by))

LimitSection(limit_offset) ==
  IF limit_offset = PyNone THEN Ok(<<>>)
  ELSE IF IsSeq(limit_offset)
       THEN IF Len(limit_offset.v) > 1
            THEN Ok(<<"\n", "LIMIT", " ">> \o Str(limit_offset.v[1])
                    \o <<" ", "OFFSET", " ">> \o Str(limit_offset.v[2]))
            ELSE IF Len(limit_offset.v) = 0 THEN Raise("IndexError")
                 ELSE Ok(<<"\n", "LIMIT", " ">> \o Str(limit_offset.v[1]))
       ELSE Ok(<<"\n", "LIMIT", " ">> \o Str(limit_offset))

GroupBySection(group_by) ==
  IF group_by = PyNone THEN Ok(<<>>)
  ELSE IF IsSeq(group_by)
       THEN IF Len(group_by.v) = 0 THEN Raise("IndexError")
            ELSE Ok(<<"\n", "GROUP BY", "\n\t">>
                    \o Joined(group_by.v, <<",", "\n\t">>, 1))
       ELSE Ok(<<"\n", "GROUP BY", " ">> \o Str(group_by))

HavingSection(having) ==
  IF having = PyNone THEN Ok(<<>>)
  ELSE Ok(<<"\n", "HAVING", " ">> \o Str(having))

\* the statement sqlite_select builds before it enters its try block
SelectStatement(table_name, column_names, distinct, join, where, order_by, limit_offset, group_by, having) ==
  CatAll(<<SelectHead(table_name, column_names, distinct),
           JoinSection(join),
           WhereSection(where),
           OrderBySection(order_by),
           LimitSection(limit_offset),
           GroupBySection(group_by),
           HavingSection(having),
           Ok(<<";">>)>>, 1)

\* the statement of sqlite_delete
DeleteStatement(table_name, search_condition) ==
  Ok(<<"DELETE FROM", " ", table_name, "\n", "WHERE", " ">>
     \o Str(search_condition) \o <<";">>)

\* col = ? for the columns i.. of sqlite_update
RECURSIVE Assignments(_, _)
Assignments(column_names, i) ==
  IF i > Len(column_names) THEN <<>>
  ELSE (IF i = 1 THEN <<>> ELSE <<",", "\n\t">>)
       \o Str(column_names[i]) \o <<" ", "=", " ", "?">>
       \o Assignments(column_names, i + 1)

\* the statement of sqlite_update
UpdateStatement(table_name, column_names, search_condition) ==
  LET tail == <<"\n", "WHERE", " ">> \o Str(search_condition) \o <<";">>
      head == <<"UPDATE", " ", table_name, "\n", "SET", " ">>
  IN  IF IsSeq(column_names)
      THEN IF Len(column_names.v) = 0 THEN Raise("IndexError")
           ELSE Ok(head \o Assignments(column_names.v, 1) \o tail)
      ELSE Ok(head \o Str(column_names) \o <<" ", "=", " ", "?">> \o tail)

\* , UNIQUE (...) and , PRIMARY KEY (...) of sqlite_create_table
Constraint(keyword, columns) ==
  IF columns = PyNone THEN Ok(<<>>)
  ELSE IF IsSeq(columns)
       THEN Ok(<<",", "\n\t", keyword, " ", "(">>
               \o Joined(columns.v, <<",", " ">>, 1) \o <<")">>)
       ELSE Ok(<<",", "\n\t", keyword, " ", "(">> \o Str(columns) \o <<")">>)

\* the extra clauses keys[3..] of one foreign-key spec
RECURSIVE ExtraClauses(_, _)
ExtraClauses(keys, i) ==
  IF i > Len(keys) THEN <<>>
  ELSE <<"\n\t\t">> \o Str(keys[i]) \o ExtraClauses(keys, i + 1)

\* one FOREIGN KEY clause from keys[0], keys[1], keys[2] and the extras
ForeignKeyClause(keys) ==
  IF Len(keys.v) < 3 THEN Raise("IndexError")
  ELSE Ok(<<",", "\n\t", "FOREIGN KEY", " ", "(">> \o Str(keys.v[1])
          \o <<")", " \n\t\t", "REFERENCES", " ">> \o Str(keys.v[2])
          \o <<" ", "(">> \o Str(keys.v[3]) \o <<")">>
          \o ExtraClauses(keys.v, 4))

RECURSIVE ForeignKeyClauses(_, _)
ForeignKeyClauses(foreign_key, i) ==
  IF i > Len(foreign_key) THEN Ok(<<>>)
  ELSE Cat(ForeignKeyClause(foreign_key[i]), ForeignKeyClauses(foreign_key, i + 1))

\* foreign_key is a sequence of specs when its first element is a sequence
\* and it has more than one element, one spec otherwise
ForeignKeySection(foreign_key) ==
  IF foreign_key = PyNone THEN Ok(<<>>)
  ELSE IF Len(foreign_key.v) = 0 THEN Raise("IndexError")
  ELSE IF IsSeq(foreign_key.v[1]) /\ Len(foreign_key.v) > 1
       THEN ForeignKeyClauses(foreign_key.v, 1)
  ELSE ForeignKeyClause(foreign_key)

ColumnData(column_definitions) ==
  IF IsSeq(column_definitions)
  THEN IF Len(column_definitions.v) > 1
       THEN Ok(Joined(column_definitions.v, <<",", "\n\t">>, 1))
       ELSE IF Len(column_definitions.v) = 0 THEN Raise("IndexError")
            ELSE Ok(Str(column_definitions.v[1]))
  ELSE Ok(Str(column_definitions))

\* the statement sqlite_create_table builds before it enters its try block
CreateTableStatement(table_name, column_definitions, unique, primary_key, foreign_key) ==
  CatAll(<<Ok(<<"CREATE TABLE", " ", table_name, " ", "(">>),
           ColumnData(column_definitions),
           Constraint("UNIQUE", unique),
           Constraint("PRIMARY KEY", primary_key),
           ForeignKeySection(foreign_key),
           Ok(<<"\n", ")", ";">>)>>, 1)

(***************************************************************************)
(* Building statements: the arguments of one call are drawn, the handler   *)
(* builds its statement from them.                                         *)
(***************************************************************************)
StrList(q) == PyList([i \in 1..Len(q) |-> PyStr(q[i])])

\* a string, or a sequence of 1..MaxLen strings
StrOrList(S) ==
  {PyStr(x) : x \in S} \cup {StrList(q) : q \in (SeqsUpTo(S, MaxLen) \ {<<>>})}

\* one condition, or a sequence of one or two conditions
ConditionArgs ==
  {PyStr("a = 1"), StrList(<<"a = 1">>), StrList(<<"a = 1", "b = 2">>)}

\* no join, one join, or a sequence of one or two joins
JoinArgs ==
  LET inner == StrList(<<"INNER", "u", "t.a = u.a">>)
      left == StrList(<<"LEFT", "v", "t.a = v.a">>)
  IN  {PyNone, inner, PyList(<<inner>>), PyList(<<inner, left>>)}

ForeignKeySpec(column, extra) ==
  PyList(<<PyStr(column), PyStr("u"), PyStr(column)>>
         \o [i \in 1..Len(extra) |-> PyStr(extra[i])])

\* no foreign key, one spec (a list or a tuple), or 1..MaxBatch specs
ForeignKeyArgs ==
  LET specs == {ForeignKeySpec("a", <<>>),
                ForeignKeySpec("b", <<"ON DELETE CASCADE">>),
                ForeignKeySpec("a", <<"ON DELETE CASCADE", "ON UPDATE NO ACTION">>)}
  IN  {PyNone} \cup specs \cup {PyTuple(k.v) : k \in specs}
      \cup {PyList(q) : q \in (SeqsUpTo(specs, MaxBatch) \ {<<>>})}

InitText ==
  /\ db = <<>> /\ committed = <<>> /\ inTxn = FALSE /\ fk = FALSE /\ pending = 0
  /\ sent = <<>> /\ ret = PyNone /\ raised = "" /\ pre = <<>>
  /\ \/ \E column_names \in {PyStr("*"), StrList(<<"a">>), StrList(<<"a", "b">>)},
           distinct \in BOOLEAN, join \in JoinArgs,
           where \in {PyNone} \cup ConditionArgs,
           order_by \in {PyNone} \cup StrOrList({"a", "b"}),
           limit_offset \in {PyNone, PyInt(1), PyList(<<PyInt(1)>>),
                            PyList(<<PyInt(1), PyInt(MaxVal)>>)},
           group_by \in {PyNone, PyStr("a"), StrList(<<"a">>), StrList(<<"a", "b">>)},
           having \in {PyNone, PyStr("a > 0")} :
          call = [op |-> "select", built |-> FALSE, table_name |-> "t",
                  column_names |-> column_names, distinct |-> distinct,
                  join |-> join, where |-> where, order_by |-> order_by,
                  limit_offset |-> limit_offset, group_by |-> group_by,
                  having |-> having]
     \/ \E search_condition \in ConditionArgs :
          call = [op |-> "delete", built |-> FALSE, table_name |-> "t",
                  search_condition |-> search_condition]
     \/ \E column_names \in {PyStr("a"), StrList(<<"a">>), StrList(<<"a", "b">>)},
           search_condition \in ConditionArgs :
          call = [op |-> "update", built |-> FALSE, table_name |-> "t",
                  column_names |-> column_names,
                  search_condition |-> search_condition]
     \/ \E column_definitions \in StrOrList({"a INTEGER", "b INTEGER"}),
           unique \in {PyNone, PyStr("a"), StrList(<<"a", "b">>)},
           primary_key \in {PyNone, PyStr("a"), StrList(<<"a", "b">>)},
           foreign_key \in ForeignKeyArgs :
          call = [op |-> "create_table", built |-> FALSE, table_name |-> "t",
                  column_definitions |-> column_definitions, unique |-> unique,
                  primary_key |-> primary_key, foreign_key |-> foreign_key]

\* the handler has built statement (or has raised while building it)
Built(statement) ==
  /\ ~call.built
  /\ call' = [call EXCEPT !.built = TRUE]
  /\ ret' = [t |-> "text", v |-> statement.text]
  /\ raised' = statement.raise
  /\ UNCHANGED <<db, committed, inTxn, fk, pending, sent, pre>>

BuildSelect ==
  /\ call.op = "select"
  /\ Built(SelectStatement(call.table_name, call.column_names, call.distinct,
                           call.join, call.where, call.order_by,
                           call.limit_offset, call.group_by, call.having))

BuildDelete ==
  /\ call.op = "delete"
  /\ Built(DeleteStatement(call.table_name, call.search_condition))

BuildUpdate ==
  /\ call.op = "update"
  /\ Built(UpdateStatement(call.table_name, call.column_names,
                           call.search_condition))

BuildCreateTable ==
  /\ call.op = "create_table"
  /\ Built(CreateTableStatement(call.table_name, call.column_definitions,
                                call.unique, call.primary_key, call.foreign_key))

NextText ==
  \/ BuildSelect
  \/ BuildDelete
  \/ BuildUpdate
  \/ BuildCreateTable

SpecText == InitText /\ [][NextText]_vars

(***************************************************************************)
(* Claims about the text of the statements.                                *)
(***************************************************************************)
\* the places of piece kw in text
Positions(text, kw) == {i \in 1..Len(text) : text[i] = kw}

\* the keyword that opens each optional section of a SELECT, in the order
\* FROM is followed by them
SectionKeywords == <<"JOIN", "WHERE", "ORDER BY", "LIMIT", "GROUP BY", "HAVING">>

\* the argument of the call that section k is built from
SectionArgument(k) ==
  CASE k = 1 -> call.join
    [] k = 2 -> call.where
    [] k = 3 -> call.order_by
    [] k = 4 -> call.limit_offset
    [] k = 5 -> call.group_by
    [] k = 6 -> call.having

\* the piece at place p is a token of its own: white space comes before it
SeparateToken(text, p) == p > 1 /\ text[p - 1] \in WhiteSpace

\* the items follow the keyword at place p, with a comma between two items
CommaJoined(text, p, items) ==
  /\ Len(text) >= p + 3 * Len(items) - 1
  /\ \A i \in 1..Len(items) : text[p + 3 * i - 1] = items[i].v
  /\ \A i \in 1..(Len(items) - 1) : text[p + 3 * i] = ","

\* C12: for every combination of present and absent arguments the text of
\* sqlite_select starts with SELECT [DISTINCT] columns FROM table, then has
\* the sections JOIN, WHERE, ORDER BY, LIMIT [OFFSET], GROUP BY, HAVING in
\* that order, a section being there exactly when its argument is given,
\* each section a separate token from the text before it, and the items of
\* an ORDER BY sequence joined with commas.
C12_AsStated ==
  (call.op = "select" /\ call.built) =>
    /\ raised = ""
    /\ LET text == ret.v
           from == Positions(text, "FROM")
       IN  /\ text[1] = "SELECT"
           /\ call.distinct <=> text[3] = "DISTINCT"
           /\ Cardinality(from) = 1
           /\ \A f \in from :
                /\ text[f + 2] = call.table_name
                /\ \A k \in 1..6 : \A q \in Positions(text, SectionKeywords[k]) : f < q
           /\ \A k \in 1..6 :
                (Positions(text, SectionKeywords[k]) # {}) <=> (SectionArgument(k) # PyNone)
           /\ \A k \in 1..6 : \A l \in (k + 1)..6 :
                \A q \in Positions(text, SectionKeywords[k]) :
                  \A r \in Positions(text, SectionKeywords[l]) : q < r
           /\ \A k \in 1..6 : \A q \in Positions(text, SectionKeywords[k]) :
                SeparateToken(text, q)
           /\ IsSeq(call.order_by) =>
                \A q \in Positions(text, "ORDER BY") :
                  CommaJoined(text, q, call.order_by.v)
           /\ text[Len(text)] = ";"

\* the condition argument of a built statement that has a WHERE clause
Condition == IF call.op = "select" THEN call.where ELSE call.search_condition

HasCondition ==
  /\ call.op \in {"select", "delete", "update"}
  /\ call.built
  /\ raised = ""
  /\ Condition # PyNone

\* the conditions joined with AND in the given order
AndJoined(conditions) == Joined(conditions, <<" ", "AND", " ">>, 1)

\* the pieces expected follow the keyword at place p and one white space
FollowedBy(text, p, expected) ==
  /\ Len(text) >= p + 1 + Len(expected)
  /\ SubSeq(text, p + 2, p + 1 + Len(expected)) = expected

\* C13: a sequence of condition strings given as the where argument of
\* sqlite_select or as the search condition of update and delete is emitted
\* as those conditions joined with AND in the given order; a single
\* condition string is emitted unchanged.
C13_AsStated ==
  HasCondition =>
    \A q \in Positions(ret.v, "WHERE") :
      FollowedBy(ret.v, q,
                 IF IsSeq(Condition) THEN AndJoined(Condition.v)
                 ELSE <<Condition.v>>)

\* the foreign-key specs of the call: the argument itself, or its elements
\* when the first of them is a sequence
ForeignKeys ==
  IF IsSeq(call.foreign_key.v[1]) THEN call.foreign_key.v ELSE <<call.foreign_key>>

\* the FOREIGN KEY clause of one spec with its extra clauses
ClauseOf(keys) ==
  <<"FOREIGN KEY", " ", "(", keys.v[1].v, ")", " \n\t\t", "REFERENCES", " ",
    keys.v[2].v, " ", "(", keys.v[3].v, ")">>
  \o ExtraClauses(keys.v, 4)

\* the FOREIGN KEY clauses of specs i.., each after a comma
RECURSIVE ClausesFrom(_, _)
ClausesFrom(specs, i) ==
  IF i > Len(specs) THEN <<>>
  ELSE <<",", "\n\t">> \o ClauseOf(specs[i]) \o ClausesFrom(specs, i + 1)

\* text ends with the pieces of tail
EndsWith(text, tail) ==
  /\ Len(text) >= Len(tail)
  /\ SubSeq(text, Len(text) - Len(tail) + 1, Len(text)) = tail

\* C14: sqlite_create_table emits one FOREIGN KEY (col) REFERENCES
\* table(col) clause followed by the spec's extra clauses for every
\* foreign-key spec, for a single spec and for a sequence of K >= 1 specs,
\* and the statement ends with a closing parenthesis and a semicolon.
C14_AsStated ==
  (call.op = "create_table" /\ call.built) =>
    /\ raised = ""
    /\ EndsWith(ret.v, <<"\n", ")", ";">>)
    /\ call.foreign_key # PyNone =>
         /\ Cardinality(Positions(ret.v, "FOREIGN KEY")) = Len(ForeignKeys)
         /\ EndsWith(ret.v, ClausesFrom(ForeignKeys, 1) \o <<"\n", ")", ";">>)

(***************************************************************************)
(* A scoped session: with SQLiteContextDB(path) as db: body.  call holds   *)
(* the state of the session, sent the calls that __exit__ and __del__ make *)
(* on the cursor and the connection, each with whether the connection was  *)
(* already closed when it was made; pre is the connection as the body left *)
(* it.  pending is not used.  In sqlite3 every call on a closed connection *)
(* or on a cursor of a closed connection raises ProgrammingError, close on *)
(* a closed connection excepted.                                           *)
(***************************************************************************)
\* what the body can end with: no exception, an exception that derives
\* from Exception, or one that derives from BaseException only
BodyEndings == {"None", "ValueError", "KeyboardInterrupt"}

\* isinstance(exc_value, Exception)
IsException(exc_value) == exc_value \in {"ValueError"}

ConnCall(op, closed) == [op |-> op, closed |-> closed]

\* SQLiteContextDB.__exit__: the cursor is closed, the connection is rolled
\* back for an Exception and committed otherwise, then it is closed
ContextExitRun(c, exc_value) ==
  [c |-> IF IsException(exc_value) THEN ConnRollback(c) ELSE ConnCommit(c),
   sent |-> <<ConnCall("cursor.close", FALSE),
              ConnCall(IF IsException(exc_value) THEN "rollback" ELSE "commit", FALSE),
              ConnCall("close", FALSE)>>,
   closed |-> TRUE,
   raised |-> ""]

\* SQLiteDB.__del__: cursor.close, commit and close inside try; the except
\* branch calls rollback, and what rollback raises leaves __del__
DelRun(c, closed) ==
  IF closed
  THEN [c |-> c,
        sent |-> <<ConnCall("cursor.close", TRUE), ConnCall("rollback", TRUE)>>,
        closed |-> TRUE,
        raised |-> "ProgrammingError"]
  ELSE [c |-> ConnCommit(c),
        sent |-> <<ConnCall("cursor.close", FALSE), ConnCall("commit", FALSE),
                   ConnCall("close", FALSE)>>,
        closed |-> TRUE,
        raised |-> ""]

InitSession ==
  /\ \E s \in Schemas : db = [n \in Names |-> IF n = "t" THEN s ELSE Absent]
  /\ committed = db
  /\ inTxn = FALSE
  /\ fk = FALSE
  /\ pending = 0
  /\ call = [op |-> "session", phase |-> "body", exc_value |-> "None",
             closed |-> FALSE]
  /\ sent = <<>>
  /\ ret = PyNone
  /\ raised = ""
  /\ pre = <<>>

\* the body inserts into table t
BodyInsert ==
  /\ call.phase = "body"
  /\ \E values \in ScalarArgs \cup FlatArgs, replace \in BOOLEAN,
        force_commit \in BOOLEAN :
       \E o \in {SqliteInsertRun(Conn, "t", PyStr("a"), values, replace,
                                 force_commit, FALSE)} :
           /\ RowsWithin(o.c.db)
           /\ SetConn(o.c)
  /\ UNCHANGED <<pending, call, sent, ret, raised, pre>>

\* the body ends, normally or with an exception, and __exit__ runs
ContextExit ==
  /\ call.phase = "body"
  /\ \E exc_value \in BodyEndings :
       \E o \in {ContextExitRun(Conn, exc_value)} :
           /\ SetConn(o.c)
           /\ call' = [op |-> "session", phase |-> "exited",
                       exc_value |-> exc_value, closed |-> o.closed]
           /\ sent' = sent \o o.sent
           /\ raised' = o.raised
  /\ pre' = Conn
  /\ UNCHANGED <<pending, ret>>

\* the object is collected after the with statement
Del ==
  /\ call.phase = "exited"
  /\ \E o \in {DelRun(Conn, call.closed)} :
       /\ SetConn(o.c)
       /\ call' = [call EXCEPT !.phase = "collected", !.closed = o.closed]
       /\ sent' = sent \o o.sent
       /\ raised' = o.raised
  /\ UNCHANGED <<pending, ret, pre>>

NextSession ==
  \/ BodyInsert
  \/ ContextExit
  \/ Del

SpecSession == InitSession /\ [][NextSession]_vars

\* C15: on every exit path of a scoped session the connection is released:
\* after a body that ended without an exception the pending changes are
\* committed, after a body that ended with any exception they are rolled
\* back and not committed, in both cases the cursor and the connection are
\* closed, and no commit or rollback is attempted on the closed connection.
C15_AsStated ==
  (call.op = "session" /\ call.phase # "body") =>
    /\ call.closed
    /\ \E i \in 1..Len(sent) : sent[i] = ConnCall("cursor.close", FALSE)
    /\ IF call.exc_value = "None"
       THEN committed = pre.db
       ELSE committed = pre.committed
    /\ \A i \in 1..Len(sent) :
         sent[i].op \in {"commit", "rollback"} => ~sent[i].closed

(***************************************************************************)
(* Claims about what a failing call leaves behind.                         *)
(***************************************************************************)
\* C16: a failing operation undoes only its own statement: what earlier
\* operations of the session did, committed or not, is still in the
\* database after a later operation fails and is rolled back.
C16_AsStated ==
  (~Idle /\ EngineRejected) => db = pre.db

\* C17: sqlite_drop_table called with disable_foreign_keys=True leaves
\* foreign-key enforcement that was ON before the call ON when it returns,
\* whether every DROP TABLE succeeds or one of them fails.
C17_AsStated ==
  (call.op = "drop_table" /\ call.disable_foreign_keys /\ pre.fk) => fk

====
